---- MODULE Spec2Model ----
(***************************************************************************)
(* Brush-to-data reconciliation of the ScatterPlot component.              *)
(*                                                                         *)
(* The model follows the current component (index.ts, the ScatterPlot      *)
(* function with the controlled `selection` prop), brush.ts (createBrush,  *)
(* setBrushSelection; stored in ScatterPlot.tsx from line 166 on) and      *)
(* plot.ts (unnamed/part_004).  The d3 brush behaviour and React's effect  *)
(* scheduling are the environment of that code; they are modelled at the   *)
(* places where the code calls them.                                       *)
(*                                                                         *)
(* Pixels and data values are integers.  The plot configuration and the    *)
(* data sets are chosen so that both axis scales have slope one pixel per  *)
(* data unit; every forward and inverse evaluation below is then exact.    *)
(***************************************************************************)
EXTENDS Integers, Sequences, FiniteSets, TLC

VARIABLES
  parent,                 \* which kind of caller renders <ScatterPlot>
  data,                   \* the `data` prop (memoizedData)
  enableBrush,            \* the `enableBrush` prop
  overlays,               \* brush layers (g.brush) in the container
  mounts,                 \* renders with new data or enableBrush so far
  brushRef,               \* brushRef.current: NULL or the refs of one mount
  listeners,              \* keydown listeners of the component on document
  cleanup,                \* did the last run of the mount effect return a cleanup
  brushSelection,         \* d3 state.selection of the brush in the DOM
  opacity,                \* the "opacity" attribute of every circle in the DOM
  gesture,                \* the pointer gesture in progress (d3 `started` closure)
  selectedCount,          \* useState: the "Selected: N" counter
  isApplyingProgrammatic, \* isApplyingProgrammaticRef.current
  parentSelection,        \* the caller's useState `selection`
  selectionProp,          \* the `selection` prop of the last render
  selDirty,               \* the caller's selection changed identity since then
  parentDirty,            \* the caller has a state update waiting for a render
  pc,                     \* position inside the controlled-selection effect
  notes,                  \* observer calls since the last external event
  applied,                \* setBrushSelection calls since the last external event
  steps,                  \* renders and effect steps since the last external event
  prev,                   \* the last application of the prop, while the caller repeats it
  last                    \* the step taken last, with what it was given

vars == << parent, data, enableBrush, overlays, mounts, brushRef, listeners, cleanup, brushSelection, opacity, gesture,
           selectedCount, isApplyingProgrammatic, parentSelection,
           selectionProp, selDirty, parentDirty, pc, notes, applied, steps,
           prev, last >>

----------------------------------------------------------------------------
(* Values *)

\* JavaScript null (and undefined where the code normalises it with `?? null`).
NULL == [null |-> TRUE]

\* JavaScript undefined where the code hands it on as a value.
undefined == [undefined |-> TRUE]

Min(a, b) == IF a <= b THEN a ELSE b
Max(a, b) == IF a >= b THEN a ELSE b

SeqMin(s) == CHOOSE v \in {s[i] : i \in DOMAIN s} : \A i \in DOMAIN s : v <= s[i]
SeqMax(s) == CHOOSE v \in {s[i] : i \in DOMAIN s} : \A i \in DOMAIN s : v >= s[i]

\* A Point of types.ts.
Point(x, y, size, color) == [x |-> x, y |-> y, size |-> size, color |-> color]

\* A pixel rectangle [[x0, y0], [x1, y1]] of d3-brush.
Rect(x0, y0, x1, y1) == [x0 |-> x0, y0 |-> y0, x1 |-> x1, y1 |-> y1]

\* A BrushSelection of types.ts (data coordinates).
BrushSelection(x0, y0, x1, y1) == [x0 |-> x0, y0 |-> y0, x1 |-> x1, y1 |-> y1]

----------------------------------------------------------------------------
(* Inputs *)

\* The plot configuration handed to createScatterPlot.
config == [width |-> 200, height |-> 200, margin |-> 60]

\* Marks at (60,60), (100,100), (140,140); the sizes decrease, so the dots are drawn
\* in data order.
DiagonalData == << Point(0, 80, 30, 1), Point(40, 40, 20, 2), Point(80, 0, 10, 3) >>

\* Marks at (60,140), (140,60), (110,60): not symmetric in x and y.
SkewData == << Point(0, 0, 30, 1), Point(80, 80, 20, 2), Point(50, 80, 10, 3) >>

DataSets == {DiagonalData, SkewData}

\* Positions a pointer event may carry: on and off the marks' coordinates, on
\* one axis only, and (170,170) beyond the brush extent.
Pointers ==
  { [x |-> 50, y |-> 50], [x |-> 60, y |-> 60], [x |-> 110, y |-> 110],
    [x |-> 50, y |-> 110], [x |-> 110, y |-> 60], [x |-> 170, y |-> 170] }

\* Data rectangles a caller may set: the centre region of App's and the
\* example's button, a vertical line given bottom-up, and a rectangle beyond
\* all marks given right-to-left.
ExternalSelections ==
  { BrushSelection(40, 40, 60, 60),
    BrushSelection(40, 0, 40, 80),
    BrushSelection(120, 100, 100, 120) }

\* The callers of the repository.
\*   static:   passes no selection and keeps no state (BasicExample,
\*             PlotScatterBrush);
\*   observer: stores what the observer reports, passes no selection
\*             (SelectionHandlingExample);
\*   mirror:   stores the reported selection and passes it back as the
\*             `selection` prop (App, ControlledSelectionExample).
\* observer and mirror define the handler inline, so every render of theirs
\* hands the component a new onSelectionChange.
ParentKinds == {"static", "observer", "mirror"}

\* Most observer calls recorded for one external event.
MaxNotes == 4

\* Most renders and effect steps counted for one external event.
MaxSteps == 6

----------------------------------------------------------------------------
(* d3.scaleLinear *)

scaleLinear(domain, range) ==
  [d0 |-> domain[1], d1 |-> domain[2], r0 |-> range[1], r1 |-> range[2]]

\* scale(v): a domain of width zero maps every input to the middle of the range.
ScaleApply(s, v) ==
  IF s.d1 = s.d0 THEN (s.r0 + s.r1) \div 2
  ELSE s.r0 + ((v - s.d0) * (s.r1 - s.r0)) \div (s.d1 - s.d0)

\* scale.invert taking the pixel as an offset from the start of the range.
ScaleInvertFromZero(s, p) ==
  IF s.r1 = s.r0 THEN (s.d0 + s.d1) \div 2
  ELSE s.d0 + (p * (s.d1 - s.d0)) \div (s.r1 - s.r0)

\* scale.invert(p): a range of width zero maps every input to the middle of the domain.
ScaleInvert(s, p) ==
  IF s.r1 = s.r0 THEN (s.d0 + s.d1) \div 2
  ELSE s.d0 + ((p - s.r0) * (s.d1 - s.d0)) \div (s.r1 - s.r0)

----------------------------------------------------------------------------
(* plot.ts *)

\* A coordinate that is not a number.
NaN == -1000

\* Plot.dot draws a point when both of its coordinates are numbers.
Drawable(pt) == pt.x # NaN /\ pt.y # NaN

\* Plot.dot with r given as a channel (r: "size"): the indices of the points
\* that are drawn, in the order of their circles in the document.  Plot
\* leaves out the points it cannot place and draws the dots by descending
\* radius, points of equal size in data order.
Rendered(d) ==
  LET drawn == { i \in DOMAIN d : Drawable(d[i]) }
      rank(i) == 1 + Cardinality({ j \in drawn :
                                     \/ d[j].size > d[i].size
                                     \/ d[j].size = d[i].size /\ j < i })
  IN  [k \in 1..Cardinality(drawn) |-> CHOOSE i \in drawn : rank(i) = k] \o << >>

\* Plot.plot: the x and y scales of the rendered plot (plot.scale("x"),
\* plot.scale("y")): the extent of the numbers of the channel, whether their
\* points are drawn or not, onto the frame inside the margins, y growing
\* upwards.
PlotScaleX(d, cfg) ==
  LET xs == SelectSeq([i \in DOMAIN d |-> d[i].x], LAMBDA v : v # NaN)
  IN  scaleLinear(<< SeqMin(xs), SeqMax(xs) >>, << cfg.margin, cfg.width - cfg.margin >>)

PlotScaleY(d, cfg) ==
  LET ys == SelectSeq([i \in DOMAIN d |-> d[i].y], LAMBDA v : v # NaN)
  IN  scaleLinear(<< SeqMin(ys), SeqMax(ys) >>, << cfg.height - cfg.margin, cfg.margin >>)

\* The circles of the rendered plot in document order.
createScatterPlot(d, cfg) ==
  LET order == Rendered(d)
      x == PlotScaleX(d, cfg)
      y == PlotScaleY(d, cfg)
  IN  [k \in DOMAIN order |->
         [cx |-> ScaleApply(x, d[order[k]].x),
          cy |-> ScaleApply(y, d[order[k]].y)]] \o << >>

\* extractScalesFromPlotElement with the y range in the order of the pixels.
extractScalesYUnreversed(d, cfg, circles) ==
  LET cxs == [i \in DOMAIN circles |-> circles[i].cx]
      cys == [i \in DOMAIN circles |-> circles[i].cy]
      xDomain == << ScaleInvert(PlotScaleX(d, cfg), SeqMin(cxs)),
                    ScaleInvert(PlotScaleX(d, cfg), SeqMax(cxs)) >>
      yDomain == << ScaleInvert(PlotScaleY(d, cfg), SeqMax(cys)),
                    ScaleInvert(PlotScaleY(d, cfg), SeqMin(cys)) >>
  IN  [xScale |-> scaleLinear(xDomain, << SeqMin(cxs), SeqMax(cxs) >>),
       yScale |-> scaleLinear(yDomain, << SeqMin(cys), SeqMax(cys) >>)]

\* The local scales built from the native ones and the circles' pixel extent.
extractScalesFromPlotElement(d, cfg, circles) ==
  LET cxs == [i \in DOMAIN circles |-> circles[i].cx]
      cys == [i \in DOMAIN circles |-> circles[i].cy]
      minCx == SeqMin(cxs)
      maxCx == SeqMax(cxs)
      minCy == SeqMin(cys)
      maxCy == SeqMax(cys)
      xDomain == << ScaleInvert(PlotScaleX(d, cfg), minCx), ScaleInvert(PlotScaleX(d, cfg), maxCx) >>
      yDomain == << ScaleInvert(PlotScaleY(d, cfg), maxCy), ScaleInvert(PlotScaleY(d, cfg), minCy) >>
  IN  [xScale |-> scaleLinear(xDomain, << minCx, maxCx >>),
       yScale |-> scaleLinear(yDomain, << maxCy, minCy >>)]

\* width.baseVal?.value || 0 times height.baseVal?.value || 0.
SvgArea(svg) ==
  (IF svg.width = NULL THEN 0 ELSE svg.width.value)
    * (IF svg.height = NULL THEN 0 ELSE svg.height.value)

\* allSvgs.reduce(...) over the svgs from position k on, `largest` being the
\* index of the accumulator.
RECURSIVE ReduceLargest(_, _, _)
ReduceLargest(allSvgs, k, largest) ==
  IF k > Len(allSvgs) THEN largest
  ELSE ReduceLargest(allSvgs, k + 1,
                     IF SvgArea(allSvgs[k]) > SvgArea(allSvgs[largest])
                     THEN k ELSE largest)

\* The same reduction keeping the later svg when two areas are equal.
RECURSIVE ReduceLargestOrEqual(_, _, _)
ReduceLargestOrEqual(allSvgs, k, largest) ==
  IF k > Len(allSvgs) THEN largest
  ELSE ReduceLargestOrEqual(allSvgs, k + 1,
                            IF SvgArea(allSvgs[k]) >= SvgArea(allSvgs[largest])
                            THEN k ELSE largest)

\* findMainSvg taking the last of the largest svgs.
findMainSvgLastWins(plotElement) ==
  IF plotElement.tag = "svg" THEN [index |-> 0]
  ELSE IF Len(plotElement.svgs) = 0 THEN NULL
  ELSE [index |-> ReduceLargestOrEqual(plotElement.svgs, 1, 1)]

\* findMainSvg.  An element is its tag and its nested svgs in document order;
\* the result is index 0 for the element itself, the index of a nested svg,
\* or NULL for undefined (reduce over no svgs returns its initial value
\* allSvgs[0]).
findMainSvg(plotElement) ==
  IF plotElement.tag = "svg" THEN [index |-> 0]
  ELSE IF Len(plotElement.svgs) = 0 THEN NULL
  ELSE [index |-> ReduceLargest(plotElement.svgs, 1, 1)]

----------------------------------------------------------------------------
(* brush.ts *)

\* The inclusive hit test of updateCircleOpacities, calculateSelection and
\* setBrushSelection.
inside(sel, pos) ==
  sel.x0 <= pos.cx /\ pos.cx <= sel.x1 /\ sel.y0 <= pos.cy /\ pos.cy <= sel.y1

\* The opacity attribute written to every circle for a pixel rectangle or null.
updateCircleOpacities(sel, circlePositions) ==
  IF sel # NULL
  THEN [i \in DOMAIN circlePositions |->
          IF inside(sel, circlePositions[i]) THEN "0.7" ELSE "0.15"]
  ELSE [i \in DOMAIN circlePositions |-> "0.7"]

\* data[i] of JavaScript: undefined beyond the end of the array.
At(d, i) == IF i \in DOMAIN d THEN d[i] ELSE undefined

\* The indices 1..n whose cached position is inside sel, the last one first.
RECURSIVE SelectedDownFrom(_, _, _)
SelectedDownFrom(sel, circlePositions, n) ==
  IF n = 0 THEN << >>
  ELSE LET rest == SelectedDownFrom(sel, circlePositions, n - 1)
       IN  IF inside(sel, circlePositions[n]) THEN << n >> \o rest ELSE rest

\* The indices 1..n whose cached position is inside sel, in increasing order.
RECURSIVE SelectedUpTo(_, _, _)
SelectedUpTo(sel, circlePositions, n) ==
  IF n = 0 THEN << >>
  ELSE LET rest == SelectedUpTo(sel, circlePositions, n - 1)
       IN  IF inside(sel, circlePositions[n]) THEN Append(rest, n) ELSE rest

\* calculateSelection with the right and bottom bounds exclusive.
calculateSelectionHalfOpen(sel, ref, d) ==
  IF sel = NULL
  THEN [dataSelection |-> NULL, selectedPoints |-> << >>]
  ELSE LET hit == {i \in DOMAIN ref.circlePositions :
                     /\ sel.x0 <= ref.circlePositions[i].cx
                     /\ ref.circlePositions[i].cx < sel.x1
                     /\ sel.y0 <= ref.circlePositions[i].cy
                     /\ ref.circlePositions[i].cy < sel.y1}
           idx == SelectedUpTo(sel, ref.circlePositions, Len(ref.circlePositions))
           kept == SelectSeq(idx, LAMBDA i : i \in hit)
       IN  [dataSelection |->
              BrushSelection(ScaleInvert(ref.xScale, sel.x0),
                             ScaleInvert(ref.yScale, sel.y0),
                             ScaleInvert(ref.xScale, sel.x1),
                             ScaleInvert(ref.yScale, sel.y1)),
            selectedPoints |-> [k \in DOMAIN kept |-> At(d, kept[k])]]

\* calculateSelection reporting the rectangle with the smaller y first.
calculateSelectionBottomFirst(sel, ref, d) ==
  IF sel = NULL
  THEN [dataSelection |-> NULL, selectedPoints |-> << >>]
  ELSE LET idx == SelectedUpTo(sel, ref.circlePositions, Len(ref.circlePositions))
       IN  [dataSelection |->
              BrushSelection(ScaleInvert(ref.xScale, sel.x0),
                             ScaleInvert(ref.yScale, sel.y1),
                             ScaleInvert(ref.xScale, sel.x1),
                             ScaleInvert(ref.yScale, sel.y0)),
            selectedPoints |-> [k \in DOMAIN idx |-> At(d, idx[k])]]

\* calculateSelection reporting no rectangle when no point is inside.
calculateSelectionNullIfNone(sel, ref, d) ==
  LET idx == IF sel = NULL THEN << >>
             ELSE SelectedUpTo(sel, ref.circlePositions, Len(ref.circlePositions))
  IN  IF Len(idx) = 0
      THEN [dataSelection |-> NULL, selectedPoints |-> << >>]
      ELSE [dataSelection |->
              BrushSelection(ScaleInvert(ref.xScale, sel.x0),
                             ScaleInvert(ref.yScale, sel.y0),
                             ScaleInvert(ref.xScale, sel.x1),
                             ScaleInvert(ref.yScale, sel.y1)),
            selectedPoints |-> [k \in DOMAIN idx |-> At(d, idx[k])]]

\* calculateSelection returning changed copies of the points (colour reset).
calculateSelectionRecoloured(sel, ref, d) ==
  IF sel = NULL
  THEN [dataSelection |-> NULL, selectedPoints |-> << >>]
  ELSE LET idx == SelectedUpTo(sel, ref.circlePositions, Len(ref.circlePositions))
       IN  [dataSelection |->
              BrushSelection(ScaleInvert(ref.xScale, sel.x0),
                             ScaleInvert(ref.yScale, sel.y0),
                             ScaleInvert(ref.xScale, sel.x1),
                             ScaleInvert(ref.yScale, sel.y1)),
            selectedPoints |-> [k \in DOMAIN idx |->
                                  [At(d, idx[k]) EXCEPT !.color = 0]]]

\* calculateSelection: the points inside sel and sel in data coordinates.
calculateSelection(sel, ref, d) ==
  IF sel = NULL
  THEN [dataSelection |-> NULL, selectedPoints |-> << >>]
  ELSE LET idx == SelectedUpTo(sel, ref.circlePositions, Len(ref.circlePositions))
       IN  [dataSelection |->
              BrushSelection(ScaleInvert(ref.xScale, sel.x0),
                             ScaleInvert(ref.yScale, sel.y0),
                             ScaleInvert(ref.xScale, sel.x1),
                             ScaleInvert(ref.yScale, sel.y1)),
            selectedPoints |-> [k \in DOMAIN idx |-> At(d, idx[k])]]

----------------------------------------------------------------------------
(* The mount effect of the component: one rendered plot and its brush *)

\* Padding of the brush extent around the outermost circles.
padding == 20

\* The brush extent computed from the circle positions.
BrushExtent(circles) ==
  LET cxs == [i \in DOMAIN circles |-> circles[i].cx]
      cys == [i \in DOMAIN circles |-> circles[i].cy]
  IN  Rect(SeqMin(cxs) - padding, SeqMin(cys) - padding,
           SeqMax(cxs) + padding, SeqMax(cys) + padding)

\* What one run of the mount effect that creates a brush on the circles given
\* leaves in brushRef.current (with the extent and the data that createBrush
\* keeps in its closure).
BrushRefs(d, cfg, circles) ==
  LET scales == extractScalesFromPlotElement(d, cfg, circles)
  IN  [xScale |-> scales.xScale, yScale |-> scales.yScale,
       circlePositions |-> circles, extent |-> BrushExtent(circles), data |-> d]

\* brushRef.current after a mount effect that found the circles of the chart.
MountRefs(d, cfg) == BrushRefs(d, cfg, createScatterPlot(d, cfg))

\* The opacity attributes of freshly rendered circles: none is set.
FreshOpacity(circles) == [i \in DOMAIN circles |-> "unset"]

\* d3.tickIncrement(start, stop, 5) for whole numbers with stop - start = span
\* from 5 to 49.
TickStep(span) ==
  IF span >= 36 THEN 10 ELSE IF span >= 16 THEN 5 ELSE IF span >= 8 THEN 2 ELSE 1

\* d3.ticks(start, stop, 5): the multiples of the step from start to stop.
Ticks(start, stop) ==
  IF start = stop THEN << start >>
  ELSE LET step == TickStep(stop - start)
           i1   == (start + step - 1) \div step
           i2   == stop \div step
       IN  [k \in 1..(i2 - i1 + 1) |-> (i1 + k - 1) * step] \o << >>

\* getSizeExtentAndTicks: the extent of the sizes and the legend's values.
getSizeExtentAndTicks(d) ==
  IF Len(d) = 0 THEN [sizeExtent |-> << 0, 0 >>, sizeLegendData |-> << >>]
  ELSE LET sizes == [i \in DOMAIN d |-> d[i].size]
       IN  [sizeExtent |-> << SeqMin(sizes), SeqMax(sizes) >>,
            sizeLegendData |-> Ticks(SeqMin(sizes), SeqMax(sizes))]

\* The default of config.sizeRange in the mount effect.
sizeRange == << 2, 12 >>

\* The circles createSizeLegend draws for the values from position k on.
RECURSIVE LegendCircles(_, _, _, _)
LegendCircles(values, k, xOffset, rScale) ==
  IF k > Len(values) THEN << >>
  ELSE LET r == ScaleApply(rScale, values[k])
       IN  << [cx |-> xOffset + r, cy |-> 25] >>
             \o LegendCircles(values, k + 1, xOffset + r * 2 + 8, rScale)

\* createSizeLegend: an svg of 180 by 50 with one circle for every value.
createSizeLegend(values, domain, range) ==
  [kind |-> "sizeLegend", width |-> [value |-> 180], height |-> [value |-> 50],
   circles |-> LegendCircles(values, 1, 10, scaleLinear(domain, range))]

\* The figure Plot.plot returns for a continuous colour scale with a legend:
\* the ramp of the colour legend (240 by 50, no circle), then the chart.  An
\* output without a surface holds no svg.
PlotFigure(d, cfg, surface) ==
  IF surface
  THEN << [kind |-> "colorLegend", width |-> [value |-> 240],
           height |-> [value |-> 50], circles |-> << >>],
          [kind |-> "chart", width |-> [value |-> cfg.width],
           height |-> [value |-> cfg.height],
           circles |-> createScatterPlot(d, cfg)] >>
  ELSE << >>

\* The svgs of the plot element after the legends were set up: the size legend
\* stands before the chart (after the colour legend, inside the wrapper); with
\* no chart, insertBefore(sizeLegendSvg, undefined) appends it.
WithLegends(figure, sizeLegendSvg) ==
  IF Len(figure) = 0 THEN << sizeLegendSvg >>
  ELSE << figure[1], sizeLegendSvg >> \o SubSeq(figure, 2, Len(figure))

\* Ways in which the scale access of the rendered output may fail: no scale
\* function on it, no x or y scale returned, or the call raising.
Faults == {"none", "noScaleApi", "noScale", "scaleThrows"}

\* extractScalesFromPlotElement with its checks: null without the scale API,
\* without circles, when the access raises (caught and logged), and without
\* one of the scales.
extractScalesOrNull(d, cfg, circles, fault) ==
  IF fault = "noScaleApi" THEN NULL
  ELSE IF Len(circles) = 0 THEN NULL
  ELSE IF fault = "scaleThrows" THEN NULL
  ELSE IF fault = "noScale" THEN NULL
  ELSE extractScalesFromPlotElement(d, cfg, circles)

\* The mount effect counting the brush layer it appends without emptying the
\* container first.
MountOverlaysKept(before, brush) == before + (IF brush THEN 1 ELSE 0)

\* Brush layers in the container after one run of the mount effect: the
\* container is emptied, then createBrush appends one layer.
MountOverlays(before, brush) == IF brush THEN 1 ELSE 0

\* One run of the mount effect body for the props d and eb on a rendered
\* output with or without a surface and with the scale fault given: the
\* circles of the chart, the circles of the svg that findMainSvg picks (those
\* the brush works on), whether a brush was created, and then its refs.
MountEffect(d, eb, surface, fault) ==
  LET figure  == PlotFigure(d, config, surface)
      chart   == IF surface THEN figure[2].circles ELSE << >>
      legend  == getSizeExtentAndTicks(d)
      svgs    == WithLegends(figure,
                             createSizeLegend(legend.sizeLegendData,
                                              legend.sizeExtent, sizeRange))
      svgNode == findMainSvg([tag |-> "figure", svgs |-> svgs])
      circles == svgs[svgNode.index].circles
      none    == [brush |-> FALSE, chart |-> chart, circles |-> chart]
  IN  IF ~(eb /\ Len(d) > 0) THEN none
      ELSE IF Len(circles) = 0 THEN none
      ELSE IF extractScalesOrNull(d, config, circles, fault) = NULL THEN none
      ELSE [brush |-> TRUE, chart |-> chart, circles |-> circles,
            refs |-> BrushRefs(d, config, circles)]

----------------------------------------------------------------------------
(* The state the handlers work on, as one record *)

NoGesture == [active |-> FALSE]

World ==
  [brushSelection |-> brushSelection, opacity |-> opacity,
   selectedCount |-> selectedCount, notes |-> notes,
   parentSelection |-> parentSelection, selDirty |-> selDirty,
   parentDirty |-> parentDirty, gesture |-> gesture]

Commit(w) ==
  /\ brushSelection' = w.brushSelection
  /\ opacity' = w.opacity
  /\ selectedCount' = w.selectedCount
  /\ notes' = w.notes
  /\ parentSelection' = w.parentSelection
  /\ selDirty' = w.selDirty
  /\ parentDirty' = w.parentDirty
  /\ gesture' = w.gesture

\* An external event starts a new count of observer calls and applications.
Fresh(w) == [w EXCEPT !.notes = << >>]

\* One more render or effect step.
Step == steps' = IF steps < MaxSteps THEN steps + 1 ELSE steps

\* One observer call: its arguments, and the opacities that the circles of the
\* calling brush had at the call.
Note(points, sel, seen) == [points |-> points, selection |-> sel, seen |-> seen]

----------------------------------------------------------------------------
(* The caller *)

\* onSelectionChange as the callers of the repository define it
\* (handleSelectionChange): record the call; observer and mirror store the
\* points (a new array, so a render follows); mirror also stores the selection.
onSelectionChange(w, points, sel, seen) ==
  LET noted == [w EXCEPT !.notes = IF Len(w.notes) < MaxNotes
                                   THEN Append(w.notes, Note(points, sel, seen))
                                   ELSE w.notes]
  IN  CASE parent = "static"   -> noted
        [] parent = "observer" -> [noted EXCEPT !.parentDirty = TRUE]
        [] parent = "mirror"   ->
             [noted EXCEPT !.parentDirty = TRUE,
                           !.parentSelection = sel,
                           !.selDirty = (sel # NULL) \/ (selectionProp # NULL)]

----------------------------------------------------------------------------
(* The component's brush callbacks *)

\* onBrush without the check of the flag.
onBrushUngated(w, dataSelection, selectedPoints, seen) ==
  onSelectionChange([w EXCEPT !.selectedCount = Len(selectedPoints)],
                    selectedPoints, dataSelection, seen)

\* The onBrush callback the mount effect passes to createBrush.
onBrush(w, dataSelection, selectedPoints, seen) ==
  LET counted == [w EXCEPT !.selectedCount = Len(selectedPoints)]
  IN  IF ~isApplyingProgrammatic
      THEN onSelectionChange(counted, selectedPoints, dataSelection, seen)
      ELSE counted

\* The "brush" listener calling onBrush as the "end" listener does.
onBrushEventNotifies(w, sel, ref, stale) ==
  LET shown == IF stale THEN w
               ELSE [w EXCEPT !.opacity = updateCircleOpacities(sel, ref.circlePositions)]
      calc  == calculateSelection(sel, ref, ref.data)
  IN  onBrush(shown, calc.dataSelection, calc.selectedPoints, shown.opacity)

\* The brush's "brush" listener.  A gesture that outlived its plot (stale)
\* writes to the circles of that plot, which are no longer in the document;
\* every write covers all of them and nothing reads them, so they are not kept.
onBrushEvent(w, sel, ref, stale) ==
  IF stale THEN w
  ELSE [w EXCEPT !.opacity = updateCircleOpacities(sel, ref.circlePositions)]

\* The "end" listener calling onBrush before it updates the opacities.
onEndEventNotifyFirst(w, sel, ref, stale) ==
  LET calc == calculateSelection(sel, ref, ref.data)
      told == onBrush(w, calc.dataSelection, calc.selectedPoints, w.opacity)
  IN  onBrushEvent(told, sel, ref, stale)

\* The "end" listener returning at once when the event carries no selection.
onEndEventSkipsNull(w, sel, ref, stale) ==
  IF sel = NULL THEN w
  ELSE LET shown == onBrushEvent(w, sel, ref, stale)
           calc  == calculateSelection(sel, ref, ref.data)
       IN  onBrush(shown, calc.dataSelection, calc.selectedPoints,
                   IF stale THEN updateCircleOpacities(sel, ref.circlePositions)
                   ELSE shown.opacity)

\* The brush's "end" listener: opacities first, then onBrush.
onEndEvent(w, sel, ref, stale) ==
  LET shown == onBrushEvent(w, sel, ref, stale)
      calc  == calculateSelection(sel, ref, ref.data)
  IN  onBrush(shown, calc.dataSelection, calc.selectedPoints,
              IF stale THEN updateCircleOpacities(sel, ref.circlePositions)
              ELSE shown.opacity)

\* brush.move(brushLayer, sel) on the brush of brushRef.  d3 sets the
\* selection and emits start, brush, end; while a pointer gesture is active on
\* the same brush its emitter is reused: start is emitted as a second "brush"
\* and "end" is left to the gesture.
brushMove(w, sel, ref) ==
  LET set == [w EXCEPT !.brushSelection = sel]
  IN  IF w.gesture.active /\ w.gesture.onRef
      THEN onBrushEvent(onBrushEvent(set, sel, ref, FALSE), sel, ref, FALSE)
      ELSE onEndEvent(onBrushEvent(set, sel, ref, FALSE), sel, ref, FALSE)

\* setBrushSelection whose null branch resets the opacities without moving
\* the brush.
setBrushSelectionKeepsBrush(w, selection, ref) ==
  IF selection = NULL
  THEN [w EXCEPT !.opacity = [i \in DOMAIN ref.circlePositions |-> "0.7"]]
  ELSE LET svgX0 == ScaleApply(ref.xScale, selection.x0)
           svgY0 == ScaleApply(ref.yScale, selection.y0)
           svgX1 == ScaleApply(ref.xScale, selection.x1)
           svgY1 == ScaleApply(ref.yScale, selection.y1)
           box == Rect(Min(svgX0, svgX1), Min(svgY0, svgY1),
                       Max(svgX0, svgX1), Max(svgY0, svgY1))
       IN  [brushMove(w, box, ref) EXCEPT
              !.opacity = [i \in DOMAIN ref.circlePositions |->
                             IF inside(box, ref.circlePositions[i])
                             THEN "0.7" ELSE "0.15"]]

\* setBrushSelection handing the forward-mapped corners to the brush in the
\* order the caller gave them.
setBrushSelectionUnordered(w, selection, ref) ==
  IF selection = NULL
  THEN [brushMove(w, NULL, ref) EXCEPT
          !.opacity = [i \in DOMAIN ref.circlePositions |-> "0.7"]]
  ELSE LET box == Rect(ScaleApply(ref.xScale, selection.x0),
                       ScaleApply(ref.yScale, selection.y0),
                       ScaleApply(ref.xScale, selection.x1),
                       ScaleApply(ref.yScale, selection.y1))
       IN  [brushMove(w, box, ref) EXCEPT
              !.opacity = [i \in DOMAIN ref.circlePositions |->
                             IF inside(box, ref.circlePositions[i])
                             THEN "0.7" ELSE "0.15"]]

\* setBrushSelection clearing the brush when a scale is missing.
setBrushSelectionClearsUnscaled(w, selection, ref) ==
  IF selection = NULL \/ ref.xScale = NULL \/ ref.yScale = NULL
  THEN [brushMove(w, NULL, ref) EXCEPT
          !.opacity = [i \in DOMAIN ref.circlePositions |-> "0.7"]]
  ELSE LET box == Rect(Min(ScaleApply(ref.xScale, selection.x0), ScaleApply(ref.xScale, selection.x1)),
                       Min(ScaleApply(ref.yScale, selection.y0), ScaleApply(ref.yScale, selection.y1)),
                       Max(ScaleApply(ref.xScale, selection.x0), ScaleApply(ref.xScale, selection.x1)),
                       Max(ScaleApply(ref.yScale, selection.y0), ScaleApply(ref.yScale, selection.y1)))
       IN  [brushMove(w, box, ref) EXCEPT
              !.opacity = [i \in DOMAIN ref.circlePositions |->
                             IF inside(box, ref.circlePositions[i])
                             THEN "0.7" ELSE "0.15"]]

\* setBrushSelection(brushLayer, brush, selection, xScale, yScale, circles,
\* circlePositions).
setBrushSelection(w, selection, ref) ==
  IF selection = NULL
  THEN [brushMove(w, NULL, ref) EXCEPT
          !.opacity = [i \in DOMAIN ref.circlePositions |-> "0.7"]]
  ELSE IF ref.xScale = NULL \/ ref.yScale = NULL
  THEN w
  ELSE LET svgX0 == ScaleApply(ref.xScale, selection.x0)
           svgY0 == ScaleApply(ref.yScale, selection.y0)
           svgX1 == ScaleApply(ref.xScale, selection.x1)
           svgY1 == ScaleApply(ref.yScale, selection.y1)
           minX == Min(svgX0, svgX1)
           maxX == Max(svgX0, svgX1)
           minY == Min(svgY0, svgY1)
           maxY == Max(svgY0, svgY1)
           box == Rect(minX, minY, maxX, maxY)
       IN  [brushMove(w, box, ref) EXCEPT
              !.opacity = [i \in DOMAIN ref.circlePositions |->
                             IF inside(box, ref.circlePositions[i])
                             THEN "0.7" ELSE "0.15"]]

\* handleKeyDown clearing the brush without calling the observer itself.
handleKeyDownSilent(w) ==
  IF brushRef # NULL
  THEN [brushMove(w, NULL, brushRef) EXCEPT !.selectedCount = 0]
  ELSE w

\* handleKeyDown for the Escape key.
handleKeyDown(w) ==
  IF brushRef # NULL
  THEN LET moved == [brushMove(w, NULL, brushRef) EXCEPT !.selectedCount = 0]
       IN  onSelectionChange(moved, << >>, NULL, moved.opacity)
  ELSE w

----------------------------------------------------------------------------
(* d3-brush pointer gestures (the brush created by d3.brush() in createBrush) *)

\* Width of the resize handles d3 draws around the selection rectangle.
handleSize == 6

\* d3's empty(): a rectangle without area.
empty(sel) == sel.x0 = sel.x1 \/ sel.y0 = sel.y1

\* The pointer hits the overlay, not the selection rectangle or its handles.
OnOverlay(sel, p) ==
  IF sel = NULL THEN TRUE
  ELSE \/ p.x < sel.x0 - handleSize \div 2
       \/ p.x > sel.x1 + handleSize \div 2
       \/ p.y < sel.y0 - handleSize \div 2
       \/ p.y > sel.y1 + handleSize \div 2

InExtent(ext, p) ==
  ext.x0 <= p.x /\ p.x <= ext.x1 /\ ext.y0 <= p.y /\ p.y <= ext.y1

\* The rectangle spanned by the anchor of a gesture and the pointer, the
\* pointer clamped to the brush extent.
Spanned(ext, anchor, p) ==
  LET qx == Max(ext.x0, Min(ext.x1, p.x))
      qy == Max(ext.y0, Min(ext.y1, p.y))
  IN  Rect(Min(anchor.x, qx), Min(anchor.y, qy), Max(anchor.x, qx), Max(anchor.y, qy))

\* Nothing is waiting: no render of the caller, no effect of the component.
Quiescent == pc = "idle" /\ ~parentDirty

\* Nothing is waiting, or the component was unmounted: a listener left on
\* document is still called then.
Settled == Quiescent \/ pc = "unmounted"

\* Pointer-down on the overlay (d3 `started`): the brush selection becomes the
\* point under the pointer; d3 emits "start" only, which the code ignores.
PointerDown(p) ==
  /\ Quiescent
  /\ ~gesture.active
  /\ brushRef # NULL
  /\ overlays > 0
  /\ InExtent(brushRef.extent, p)
  /\ OnOverlay(brushSelection, p)
  /\ LET dot == Rect(p.x, p.y, p.x, p.y)
     IN  Commit([Fresh(World) EXCEPT
                   !.brushSelection = dot,
                   !.gesture = [active |-> TRUE, stale |-> FALSE, onRef |-> TRUE,
                                anchor |-> p, selection |-> dot,
                                state |-> NULL, ref |-> brushRef]])
  /\ applied' = 0
  /\ steps' = 0
  /\ prev' = NULL
  /\ last' = [op |-> "PointerDown"]
  /\ UNCHANGED << parent, data, enableBrush, mounts, overlays, brushRef, listeners, cleanup, isApplyingProgrammatic,
                  selectionProp, pc >>

\* Pointer-move of the active gesture (d3 `moved` and `move`): d3 first adopts
\* the brush's selection when it has one ("may be set by brush.move"), then
\* stores the spanned rectangle and emits "brush" if it differs.
PointerMove(p) ==
  /\ Quiescent
  /\ gesture.active
  /\ LET g   == gesture
         cur == IF g.stale THEN g.state ELSE brushSelection
         loc == IF cur # NULL THEN cur ELSE g.selection
         box == Spanned(g.ref.extent, g.anchor, p)
         w0  == [Fresh(World) EXCEPT !.gesture.selection = loc]
         w1  == IF loc = box THEN w0
                ELSE IF g.stale THEN [w0 EXCEPT !.gesture.state = box]
                ELSE onBrushEvent([w0 EXCEPT !.brushSelection = box], box, g.ref, FALSE)
     IN  /\ Commit(w1)
         /\ last' = [op |-> "PointerMove", box |-> box, emitted |-> (loc # box),
                     stale |-> g.stale]
  /\ applied' = 0
  /\ steps' = 0
  /\ prev' = NULL
  /\ UNCHANGED << parent, data, enableBrush, mounts, overlays, brushRef, listeners, cleanup, isApplyingProgrammatic,
                  selectionProp, pc >>

\* Pointer-up of the active gesture (d3 `ended`): a rectangle without area
\* becomes no selection; d3 emits "end" with the brush's selection.
PointerUp ==
  /\ Quiescent
  /\ gesture.active
  /\ LET g     == gesture
         cur   == IF g.stale THEN g.state ELSE brushSelection
         loc   == IF cur # NULL THEN cur ELSE g.selection
         final == IF empty(loc) THEN NULL ELSE cur
         w0    == Fresh(World)
         w1    == IF g.stale THEN w0 ELSE [w0 EXCEPT !.brushSelection = final]
     IN  /\ Commit([onEndEvent(w1, final, g.ref, g.stale) EXCEPT !.gesture = NoGesture])
         /\ last' = [op |-> "PointerUp", sel |-> final, stale |-> g.stale,
                     ref |-> g.ref, drawn |-> loc,
                     was |-> [count |-> selectedCount, shown |-> opacity]]
  /\ applied' = 0
  /\ steps' = 0
  /\ prev' = NULL
  /\ UNCHANGED << parent, data, enableBrush, mounts, overlays, brushRef, listeners, cleanup, isApplyingProgrammatic,
                  selectionProp, pc >>

\* The Escape key with the component's keydown listener registered.
Escape ==
  /\ Settled
  /\ listeners > 0
  /\ Commit(handleKeyDown(Fresh(World)))
  /\ applied' = 0
  /\ steps' = 0
  /\ prev' = NULL
  /\ last' = [op |-> "Escape", dragging |-> gesture.active]
  /\ UNCHANGED << parent, data, enableBrush, mounts, overlays, brushRef, listeners, cleanup, isApplyingProgrammatic,
                  selectionProp, pc >>

----------------------------------------------------------------------------
(* The caller's own changes of the controlled selection (App's buttons) *)

ExternalSet(d) ==
  /\ Quiescent
  /\ parent = "mirror"
  /\ parentSelection' = d
  /\ selDirty' = TRUE
  /\ parentDirty' = TRUE
  /\ notes' = << >>
  /\ applied' = 0
  /\ steps' = 0
  /\ prev' = IF prev # NULL /\ prev.selection = d THEN prev ELSE NULL
  /\ last' = [op |-> "ExternalSet"]
  /\ UNCHANGED << parent, data, enableBrush, mounts, overlays, brushRef, listeners, cleanup, brushSelection, opacity,
                  gesture, selectedCount, isApplyingProgrammatic,
                  selectionProp, pc >>

\* setSelection(null): React skips the render when the state is null already.
ExternalClear ==
  /\ Quiescent
  /\ parent = "mirror"
  /\ parentSelection' = NULL
  /\ selDirty' = (selectionProp # NULL)
  /\ parentDirty' = (parentSelection # NULL)
  /\ notes' = << >>
  /\ applied' = 0
  /\ steps' = 0
  /\ prev' = IF prev # NULL /\ prev.selection = NULL THEN prev ELSE NULL
  /\ last' = [op |-> "ExternalClear"]
  /\ UNCHANGED << parent, data, enableBrush, mounts, overlays, brushRef, listeners, cleanup, brushSelection, opacity,
                  gesture, selectedCount, isApplyingProgrammatic,
                  selectionProp, pc >>

----------------------------------------------------------------------------
(* React: the caller renders, the component's effects run *)

\* document.addEventListener("keydown", handleKeyDown) with n listeners of the
\* component registered.
addEventListener(n) == n + 1

\* document.removeEventListener("keydown", handleKeyDown) of a registered
\* handler.
removeEventListener(n) == n - 1

\* The mount effect returning no cleanup function.
EffectCleanupNone(brush) == FALSE

\* Does the mount effect return a cleanup function: it does after it has
\* registered handleKeyDown, and returns nothing on every earlier exit.
EffectCleanup(brush) == brush

\* React running the cleanup c of the effect's last run, if it returned one.
RunCleanup(n, c) == IF c THEN removeEventListener(n) ELSE n

\* What a run of the mount effect with the outcome m leaves behind.  The
\* cleanup of the run before removed its keydown listener; the container holds
\* the new plot only; brushRef.current is assigned when a brush was created
\* and not touched otherwise.  A pointer gesture d3 is tracking stays bound to
\* the brush of the removed plot.
Remount(m) ==
  /\ brushRef' = IF m.brush THEN m.refs ELSE brushRef
  /\ listeners' = LET n == RunCleanup(listeners, cleanup)
                   IN  IF m.brush THEN addEventListener(n) ELSE n
  /\ cleanup' = EffectCleanup(m.brush)
  /\ overlays' = MountOverlays(overlays, m.brush)
  /\ brushSelection' = NULL
  /\ opacity' = FreshOpacity(m.circles)
  /\ gesture' = IF gesture.active
                THEN [gesture EXCEPT
                        !.stale = TRUE,
                        !.state = IF gesture.stale THEN @ ELSE brushSelection,
                        !.onRef = IF m.brush THEN FALSE ELSE @]
                ELSE gesture

\* The caller renders with its new state.  Its handler is a new function, so
\* the mount effect's dependencies changed: the cleanup removes the keydown
\* listener, the effect empties the container, renders a new plot, creates a
\* new brush and registers a new listener.  A pointer gesture d3 is tracking
\* stays bound to the brush of the removed plot.  The controlled-selection
\* effect is due when the selection prop changed identity.
Render ==
  /\ pc = "idle"
  /\ parentDirty
  /\ parentDirty' = FALSE
  /\ selectionProp' = IF parent = "mirror" THEN parentSelection ELSE NULL
  /\ selDirty' = FALSE
  /\ Remount(MountEffect(data, enableBrush, TRUE, "none"))
  /\ pc' = IF selDirty THEN "effect" ELSE "idle"
  /\ last' = [op |-> "Render"]
  /\ Step
  /\ UNCHANGED << parent, data, enableBrush, mounts, selectedCount,
                  isApplyingProgrammatic, parentSelection, notes, applied, prev >>

\* The controlled-selection effect up to the try block: return early without a
\* brush, else raise the flag.
EffectStart ==
  /\ pc = "effect"
  /\ IF ~enableBrush \/ brushRef = NULL
     THEN pc' = "idle" /\ UNCHANGED isApplyingProgrammatic
     ELSE pc' = "apply" /\ isApplyingProgrammatic' = TRUE
  /\ last' = [op |-> "EffectStart"]
  /\ Step
  /\ UNCHANGED << parent, data, enableBrush, mounts, overlays, brushRef, listeners, cleanup, brushSelection, opacity,
                  gesture, selectedCount, parentSelection, selectionProp,
                  selDirty, parentDirty, notes, applied, prev >>

\* The outcome w of a call that worked on the brush and the circles of
\* brushRef when these are those of a removed plot: nothing in the document
\* changed; a gesture still bound to that brush sees the selection the call
\* set.
Detached(w) ==
  [w EXCEPT !.brushSelection = brushSelection,
            !.opacity = opacity,
            !.gesture = IF gesture.active /\ gesture.onRef
                        THEN [gesture EXCEPT !.state = w.brushSelection]
                        ELSE gesture]

\* The try block: setBrushSelection with the prop (`selection ?? null`).
EffectApply ==
  /\ pc = "apply"
  /\ LET w == setBrushSelection(World, selectionProp, brushRef)
     IN  /\ Commit(IF overlays > 0 THEN w ELSE Detached(w))
         /\ prev' = [selection |-> selectionProp, region |-> w.brushSelection,
                     shown |-> w.opacity]
  /\ applied' = IF applied < MaxNotes THEN applied + 1 ELSE applied
  /\ pc' = "finally"
  /\ last' = [op |-> "EffectApply", selection |-> selectionProp, before |-> prev,
              was |-> [region |-> brushSelection, count |-> selectedCount,
                       shown |-> opacity]]
  /\ Step
  /\ UNCHANGED << parent, data, enableBrush, mounts, overlays, brushRef, listeners, cleanup, isApplyingProgrammatic,
                  selectionProp >>

\* The try block when setBrushSelection raises before changing anything.
EffectApplyThrows ==
  /\ pc = "apply"
  /\ pc' = "finally"
  /\ last' = [op |-> "EffectApplyThrows"]
  /\ Step
  /\ UNCHANGED << parent, data, enableBrush, mounts, overlays, brushRef, listeners, cleanup, brushSelection, opacity,
                  gesture, selectedCount, isApplyingProgrammatic,
                  parentSelection, selectionProp, selDirty, parentDirty,
                  notes, applied, prev >>

\* The flag lowered at the end of the try block instead of in a finally block.
EffectFinallyInTry ==
  /\ pc = "finally"
  /\ isApplyingProgrammatic' = (last.op = "EffectApplyThrows")
  /\ pc' = "idle"
  /\ last' = [op |-> "EffectFinally", threw |-> (last.op = "EffectApplyThrows")]
  /\ Step
  /\ UNCHANGED << parent, data, enableBrush, mounts, overlays, brushRef, listeners, cleanup, brushSelection, opacity,
                  gesture, selectedCount, parentSelection, selectionProp,
                  selDirty, parentDirty, notes, applied, prev >>

\* The finally block.
EffectFinally ==
  /\ pc = "finally"
  /\ isApplyingProgrammatic' = FALSE
  /\ pc' = "idle"
  /\ last' = [op |-> "EffectFinally", threw |-> (last.op = "EffectApplyThrows")]
  /\ Step
  /\ UNCHANGED << parent, data, enableBrush, mounts, overlays, brushRef, listeners, cleanup, brushSelection, opacity,
                  gesture, selectedCount, parentSelection, selectionProp,
                  selDirty, parentDirty, notes, applied, prev >>

----------------------------------------------------------------------------
(* Specification *)

\* The component after its first render: the mount effect created the brush,
\* and the controlled-selection effect ran once with no selection, which set
\* every circle's opacity.
InitWith(callers, sets) ==
  /\ parent \in callers
  /\ data \in sets
  /\ enableBrush = TRUE
  /\ overlays = 1
  /\ mounts = 0
  /\ brushRef = MountRefs(data, config)
  /\ listeners = addEventListener(0)
  /\ cleanup = EffectCleanup(TRUE)
  /\ brushSelection = NULL
  /\ opacity = [i \in DOMAIN data |-> "0.7"]
  /\ gesture = NoGesture
  /\ selectedCount = 0
  /\ isApplyingProgrammatic = FALSE
  /\ parentSelection = NULL
  /\ selectionProp = NULL
  /\ selDirty = FALSE
  /\ parentDirty = FALSE
  /\ pc = "idle"
  /\ notes = << >>
  /\ applied = 0
  /\ steps = 0
  /\ prev = NULL
  /\ last = [op |-> "Mount"]

Init == InitWith(ParentKinds, DataSets)

Next ==
  \/ \E p \in Pointers : PointerDown(p)
  \/ \E p \in Pointers : PointerMove(p)
  \/ PointerUp
  \/ Escape
  \/ \E d \in ExternalSelections : ExternalSet(d)
  \/ ExternalClear
  \/ Render
  \/ EffectStart
  \/ EffectApply
  \/ EffectFinally

Spec == Init /\ [][Next]_vars

\* The same component when setBrushSelection may raise.
NextThrow == Next \/ EffectApplyThrows

SpecThrow == Init /\ [][NextThrow]_vars

----------------------------------------------------------------------------
(* Properties *)

\* The points of a note, as a set.
PointSet(points) == {points[k] : k \in DOMAIN points}

\* The step taken last was a pointer-up whose "end" event carried a rectangle.
Committed == last.op = "PointerUp" /\ last.sel # NULL

\* C1: at gesture commit (an "end" event with a non-null pixel rectangle) the
\* points handed to the observer are exactly the data[i] whose cached position
\* lies in the rectangle, all four bounds inclusive.
C1_CommitSelectsInside ==
  Committed =>
    /\ Len(notes) >= 1
    /\ PointSet(notes[1].points) =
         { last.ref.data[i] : i \in
             { j \in DOMAIN last.ref.circlePositions :
                 /\ last.sel.x0 <= last.ref.circlePositions[j].cx
                 /\ last.ref.circlePositions[j].cx <= last.sel.x1
                 /\ last.sel.y0 <= last.ref.circlePositions[j].cy
                 /\ last.ref.circlePositions[j].cy <= last.sel.y1 } }

\* Marks at (60,60), (100,100), (140,140) and the rectangle [[50,50],[110,110]]:
\* marks 0 and 1 are handed to the observer.
C1_Witness ==
  /\ Committed
  /\ data = DiagonalData
  /\ last.ref.circlePositions =
       << [cx |-> 60, cy |-> 60], [cx |-> 100, cy |-> 100], [cx |-> 140, cy |-> 140] >>
  /\ last.sel = Rect(50, 50, 110, 110)
  /\ notes[1].points = << data[1], data[2] >>

\* C2: with a caller that mirrors every observer call into the selection prop
\* (and with the other callers), an external event is followed by at most two
\* observer calls, one application of the prop and four renders and effect
\* steps (render, and the three steps of the effect), after which the system
\* is quiescent.
C2_NoUpdateLoop ==
  /\ Len(notes) <= 2
  /\ applied <= 1
  /\ steps <= 4
  /\ steps = 4 => Quiescent

\* A mirrored gesture commit has been applied to the brush and nothing is left
\* to do.
C2_Witness ==
  /\ parent = "mirror"
  /\ Quiescent
  /\ last.op = "EffectFinally"
  /\ Len(notes) = 1
  /\ notes[1].selection = parentSelection
  /\ applied = 1
  /\ steps = 4
  /\ brushSelection # NULL

\* C3: no step taken while the flag is set calls the observer.
C3_NoNotifyWhileApplying ==
  [][isApplyingProgrammatic => notes' = notes]_vars

\* The prop was applied by the effect: the "end" listener ran (region and
\* count are set) and the observer was not called.
C3_Witness ==
  /\ last.op = "EffectApply"
  /\ isApplyingProgrammatic
  /\ brushSelection # NULL
  /\ selectedCount > 0
  /\ notes = << >>

\* C4: the flag is set only inside the controlled-selection effect, between
\* its raising and its finally block; it is false whenever no effect is
\* running, also after setBrushSelection raised.
C4_FlagOnlyInsideEffect ==
  isApplyingProgrammatic <=> pc \in {"apply", "finally"}

\* The effect has returned after setBrushSelection raised, and the flag is down.
C4_Witness ==
  /\ pc = "idle"
  /\ last.op = "EffectFinally"
  /\ last.threw
  /\ ~isApplyingProgrammatic

\* C5: a pointer-up with a non-null rectangle calls the observer exactly once,
\* with the rectangle inverted through the two scales corner by corner, and
\* the circles already carried the opacities of that rectangle at the call.
C5_CommitNotifiesOnce ==
  Committed =>
    /\ Len(notes) = 1
    /\ notes[1].selection =
         [x0 |-> ScaleInvert(last.ref.xScale, last.sel.x0),
          y0 |-> ScaleInvert(last.ref.yScale, last.sel.y0),
          x1 |-> ScaleInvert(last.ref.xScale, last.sel.x1),
          y1 |-> ScaleInvert(last.ref.yScale, last.sel.y1)]
    /\ \A i \in DOMAIN last.ref.circlePositions :
         notes[1].seen[i] =
           IF /\ last.sel.x0 <= last.ref.circlePositions[i].cx
              /\ last.ref.circlePositions[i].cx <= last.sel.x1
              /\ last.sel.y0 <= last.ref.circlePositions[i].cy
              /\ last.ref.circlePositions[i].cy <= last.sel.y1
           THEN "0.7" ELSE "0.15"

\* A commit on the brush in the document that changed the opacities of the
\* circles and reported a rectangle that is not square in data space.
C5_Witness ==
  /\ Committed
  /\ ~last.stale
  /\ Len(notes) = 1
  /\ notes[1].selection = BrushSelection(50, 80, 100, -20)
  /\ notes[1].seen = opacity
  /\ \E i \in DOMAIN opacity : opacity[i] = "0.15"
  /\ \E i \in DOMAIN opacity : opacity[i] = "0.7"

\* Every circle in the document carries the full opacity.
FullOpacity == \A i \in DOMAIN opacity : opacity[i] = "0.7"

\* The step taken last was the effect applying the absent selection.
AppliedNull == last.op = "EffectApply" /\ last.selection = NULL

\* The step taken last was the effect applying a data rectangle.
AppliedRect == last.op = "EffectApply" /\ last.selection # NULL

\* C6 as the specification states it: every explicit clear, by the Escape key
\* or by the absent selection given from outside, leaves no region and full
\* opacity on every circle, and calls the observer with ([], null).
C6_EveryClearNotifies ==
  [][ (last'.op = "Escape" \/ AppliedNull') =>
        /\ brushSelection' = NULL
        /\ FullOpacity'
        /\ notes' # << >>
        /\ (last'.op = "EffectApply" => notes' # notes)
        /\ notes'[Len(notes')].points = << >>
        /\ notes'[Len(notes')].selection = NULL ]_vars

\* C6: the Escape key leaves no region and full opacity on every circle and
\* calls the observer, every call with ([], null); the absent selection given
\* from outside leaves no region and full opacity and does not call the
\* observer.
C6_ClearResets ==
  [][ /\ last'.op = "Escape" =>
           /\ brushSelection' = NULL
           /\ FullOpacity'
           /\ notes' # << >>
           /\ \A k \in DOMAIN notes' :
                notes'[k].points = << >> /\ notes'[k].selection = NULL
      /\ AppliedNull' =>
           /\ brushSelection' = NULL
           /\ FullOpacity'
           /\ notes' = notes ]_vars

\* Escape during a drag cleared the region the drag had spanned and called the
\* observer once.
C6_Witness ==
  /\ last.op = "Escape"
  /\ last.dragging
  /\ ~gesture.stale
  /\ brushSelection = NULL
  /\ FullOpacity
  /\ Len(notes) = 1
  /\ notes[1].points = << >>
  /\ notes[1].selection = NULL

\* C7: the effect applying the absent selection leaves no region, a selected
\* count of zero and full opacity on every circle.
C7_NullClearsEverything ==
  AppliedNull => brushSelection = NULL /\ selectedCount = 0 /\ FullOpacity

\* The absent selection was applied when the counter showed selected points.
C7_Witness ==
  /\ AppliedNull
  /\ last.was.count > 0
  /\ brushSelection = NULL
  /\ selectedCount = 0
  /\ FullOpacity

\* C8: when the caller gives the value it gave last (a new object of equal
\* content) the second application leaves the region and the opacities of
\* the first, and the observer is not called.
C8_SameSelectionTwice ==
  (last.op = "EffectApply" /\ last.before # NULL) =>
    /\ last.before.selection = last.selection
    /\ brushSelection = last.before.region
    /\ opacity = last.before.shown
    /\ notes = << >>

\* A data rectangle was applied a second time and dims some circle.
C8_Witness ==
  /\ AppliedRect
  /\ last.before # NULL
  /\ last.before.selection = last.selection
  /\ brushSelection = last.before.region
  /\ brushSelection # NULL
  /\ \E i \in DOMAIN opacity : opacity[i] = "0.15"
  /\ \E i \in DOMAIN opacity : opacity[i] = "0.7"

\* C9 as the specification states it: once Escape has emptied the region
\* during a drag on the brush in the document, the pointer-moves of that drag
\* do not create a region again.
C9_EscapeEndsDrag ==
  [][ (gesture.active /\ ~gesture.stale /\ brushSelection = NULL
         /\ last'.op = "PointerMove") => brushSelection' = NULL ]_vars

\* The data rectangle of the prop with its corners exchanged in x, in y, and
\* in both.
Swapped(s) ==
  { BrushSelection(s.x1, s.y0, s.x0, s.y1),
    BrushSelection(s.x0, s.y1, s.x1, s.y0),
    BrushSelection(s.x1, s.y1, s.x0, s.y0) }

\* C10: applying a data rectangle moves the brush to the rectangle of the
\* forward-mapped corners, minimum first on each axis; exactly the circles
\* inside it (bounds included) keep the full opacity; and the same input with
\* corners exchanged gives the same region and the same opacities.
C10_SetMovesToNormalisedRect ==
  AppliedRect =>
    LET s  == last.selection
        X0 == ScaleApply(brushRef.xScale, s.x0)
        X1 == ScaleApply(brushRef.xScale, s.x1)
        Y0 == ScaleApply(brushRef.yScale, s.y0)
        Y1 == ScaleApply(brushRef.yScale, s.y1)
    IN  /\ brushSelection.x0 = (IF X0 <= X1 THEN X0 ELSE X1)
        /\ brushSelection.x1 = (IF X0 <= X1 THEN X1 ELSE X0)
        /\ brushSelection.y0 = (IF Y0 <= Y1 THEN Y0 ELSE Y1)
        /\ brushSelection.y1 = (IF Y0 <= Y1 THEN Y1 ELSE Y0)
        /\ \A i \in DOMAIN opacity :
             opacity[i] = "0.7" <=>
               /\ brushSelection.x0 <= brushRef.circlePositions[i].cx
               /\ brushRef.circlePositions[i].cx <= brushSelection.x1
               /\ brushSelection.y0 <= brushRef.circlePositions[i].cy
               /\ brushRef.circlePositions[i].cy <= brushSelection.y1
        /\ \A t \in Swapped(s) :
             LET w == setBrushSelection(World, t, brushRef)
             IN  w.brushSelection = brushSelection /\ w.opacity = opacity

\* The vertical line given bottom-up in data space was applied to the marks
\* at (60,60), (100,100), (140,140): the brush holds it top-down in pixels and the
\* mark on it keeps the full opacity.
C10_Witness ==
  /\ AppliedRect
  /\ data = DiagonalData
  /\ last.selection = BrushSelection(40, 0, 40, 80)
  /\ brushSelection = Rect(100, 60, 100, 140)
  /\ opacity = << "0.15", "0.7", "0.15" >>

\* The data points whose cached position lies in the pixel rectangle, bounds
\* included.
OnOrInside(sel, ref) ==
  { ref.data[i] : i \in { j \in DOMAIN ref.circlePositions :
                           /\ sel.x0 <= ref.circlePositions[j].cx
                           /\ ref.circlePositions[j].cx <= sel.x1
                           /\ sel.y0 <= ref.circlePositions[j].cy
                           /\ ref.circlePositions[j].cy <= sel.y1 } }

\* C12 as the specification states it: a rectangle of zero width or height
\* is a selection like any other.  Released by the pointer it is the committed
\* region and the observer receives it with the marks on it; set through the
\* prop it is the region and the marks on it keep the full opacity.
C12_DegenerateAccepted ==
  /\ (last.op = "PointerUp" /\ empty(last.drawn)) =>
        /\ last.sel = last.drawn
        /\ notes # << >>
        /\ notes[1].selection # NULL
        /\ PointSet(notes[1].points) = OnOrInside(last.drawn, last.ref)
  /\ (AppliedRect /\ (last.selection.x0 = last.selection.x1
                         \/ last.selection.y0 = last.selection.y1)) =>
        /\ brushSelection # NULL
        /\ empty(brushSelection)
        /\ \A i \in DOMAIN opacity :
             opacity[i] = "0.7" <=> inside(brushSelection, brushRef.circlePositions[i])

\* C18 as the specification states it: after every pointer-move of a drag on
\* the brush in the document, the "Selected: N" counter is the number of
\* marks inside the rectangle the brush holds.
C18_CountFollowsDrag ==
  (last.op = "PointerMove" /\ ~last.stale /\ brushSelection # NULL) =>
    selectedCount =
      Cardinality({ i \in DOMAIN brushRef.circlePositions :
                      inside(brushSelection, brushRef.circlePositions[i]) })

----------------------------------------------------------------------------
(* The coordinate conversions on their own *)

\* Three marks in one column: the x scale has a domain and a range of width zero.
ColumnData == << Point(40, 0, 30, 1), Point(40, 80, 20, 2), Point(40, 40, 10, 3) >>

\* A plot of twice the size: two pixels per data unit.
wideConfig == [width |-> 280, height |-> 280, margin |-> 60]

\* Data coordinates of the corners that are converted.
DataCoords == {0, 20, 40, 50, 80}

\* The data of the first render, one caller.
InitPure == Init /\ parent = "static" /\ data = DiagonalData

\* A data rectangle taken to pixels as setBrushSelection does it and back to
\* data as calculateSelection does it, with the scales of one mount.
RoundTrip(ref, r) ==
  /\ last.op = "Mount"
  /\ LET px  == Rect(ScaleApply(ref.xScale, r.x0), ScaleApply(ref.yScale, r.y0),
                     ScaleApply(ref.xScale, r.x1), ScaleApply(ref.yScale, r.y1))
     IN  last' = [op |-> "RoundTrip", rect |-> r, pixels |-> px,
                  xScale |-> ref.xScale, yScale |-> ref.yScale,
                  back |-> BrushSelection(ScaleInvert(ref.xScale, px.x0),
                                          ScaleInvert(ref.yScale, px.y0),
                                          ScaleInvert(ref.xScale, px.x1),
                                          ScaleInvert(ref.yScale, px.y1))]
  /\ UNCHANGED << parent, data, enableBrush, mounts, overlays, brushRef, listeners, cleanup, brushSelection, opacity,
                  gesture, selectedCount, isApplyingProgrammatic,
                  parentSelection, selectionProp, selDirty, parentDirty, pc,
                  notes, applied, steps, prev >>

\* Two drawn points and a third without x whose y lies beyond theirs: the
\* circles do not reach the top of the frame.
TallData == << Point(0, 80, 30, 1), Point(80, 0, 20, 2), Point(NaN, 160, 10, 3) >>

\* The scales extractScalesFromPlotElement builds for one rendered plot, next
\* to the plot's own scales and its circles.
ExtractScales(d, cfg, ref) ==
  /\ last.op = "Mount"
  /\ last' = [op |-> "ExtractScales", data |-> d,
              circles |-> ref.circlePositions,
              native |-> [xScale |-> PlotScaleX(d, cfg), yScale |-> PlotScaleY(d, cfg)],
              local |-> [xScale |-> ref.xScale, yScale |-> ref.yScale]]
  /\ UNCHANGED << parent, data, enableBrush, mounts, overlays, brushRef, listeners, cleanup, brushSelection, opacity,
                  gesture, selectedCount, isApplyingProgrammatic,
                  parentSelection, selectionProp, selDirty, parentDirty, pc,
                  notes, applied, steps, prev >>

NextScales ==
  \E d \in DataSets \cup {ColumnData, TallData} : \E cfg \in {config, wideConfig} :
    LET ref == MountRefs(d, cfg)
    IN  \/ \E x0 \in DataCoords, y0 \in DataCoords, x1 \in DataCoords, y1 \in DataCoords :
             RoundTrip(ref, BrushSelection(x0, y0, x1, y1))
        \/ ExtractScales(d, cfg, ref)

SpecScales == InitPure /\ [][NextScales]_vars

\* v lies in the domain of the scale.
InDomain(sc, v) == Min(sc.d0, sc.d1) <= v /\ v <= Max(sc.d0, sc.d1)

\* C11: every corner coordinate of a data rectangle that lies in the domain
\* of its scale is reproduced by the forward evaluation followed by the
\* inversion; a rectangle inside both domains comes back unchanged.
C11_RoundTrip ==
  last.op = "RoundTrip" =>
    /\ InDomain(last.xScale, last.rect.x0) => last.back.x0 = last.rect.x0
    /\ InDomain(last.xScale, last.rect.x1) => last.back.x1 = last.rect.x1
    /\ InDomain(last.yScale, last.rect.y0) => last.back.y0 = last.rect.y0
    /\ InDomain(last.yScale, last.rect.y1) => last.back.y1 = last.rect.y1

\* A rectangle given right-to-left went through a scale of two pixels per
\* unit and the reversed y scale and came back as it went in.
C11_Witness ==
  /\ last.op = "RoundTrip"
  /\ last.rect = BrushSelection(50, 20, 20, 80)
  /\ last.pixels = Rect(160, 180, 100, 60)
  /\ last.back = last.rect

----------------------------------------------------------------------------
(* setBrushSelection as an exported function *)

\* A call of the exported setBrushSelection with the brush, the circles and
\* the positions of the mounted plot; xScale and yScale are optional
\* parameters and each may be left out.
CallSetBrushSelection(selection, withX, withY) ==
  /\ Quiescent
  /\ brushRef # NULL
  /\ LET ref == [brushRef EXCEPT !.xScale = IF withX THEN @ ELSE NULL,
                                 !.yScale = IF withY THEN @ ELSE NULL]
     IN  Commit(setBrushSelection(Fresh(World), selection, ref))
  /\ applied' = 0
  /\ steps' = 0
  /\ prev' = NULL
  /\ last' = [op |-> "setBrushSelection", selection |-> selection,
              scaled |-> withX /\ withY]
  /\ UNCHANGED << parent, data, enableBrush, mounts, overlays, brushRef, listeners, cleanup, isApplyingProgrammatic,
                  selectionProp, pc >>

NextApi ==
  \/ \E p \in Pointers : PointerDown(p)
  \/ \E p \in Pointers : PointerMove(p)
  \/ PointerUp
  \/ \E d \in ExternalSelections \cup {NULL} : \E withX \in BOOLEAN, withY \in BOOLEAN :
       CallSetBrushSelection(d, withX, withY)

SpecApi == InitPure /\ [][NextApi]_vars

\* C13: setting a data rectangle when a scale is missing changes nothing: the
\* region, the opacities and the count stay, the observer is not called and
\* the flag is down.
C13_SetWithoutScaleIsNoOp ==
  [][ (last'.op = "setBrushSelection" /\ ~last'.scaled /\ last'.selection # NULL) =>
        /\ brushSelection' = brushSelection
        /\ opacity' = opacity
        /\ selectedCount' = selectedCount
        /\ notes' = << >>
        /\ ~isApplyingProgrammatic' ]_vars

\* A rectangle was set without the y scale while the brush held a committed
\* region that dims a mark: the region and the count are still there.
C13_Witness ==
  /\ last.op = "setBrushSelection"
  /\ ~last.scaled
  /\ last.selection # NULL
  /\ brushSelection # NULL
  /\ selectedCount > 0
  /\ \E i \in DOMAIN opacity : opacity[i] = "0.15"
  /\ notes = << >>

----------------------------------------------------------------------------
(* findMainSvg on its own *)

\* Most nested svgs of an element.
MaxSvgs == 3

\* width.baseVal and height.baseVal of an svg: unavailable, or a length.
BaseVals == {NULL, [value |-> 0], [value |-> 10], [value |-> 20]}

Svgs == [width : BaseVals, height : BaseVals]

\* The elements findMainSvg is called with.
PlotElements ==
  [tag : {"svg", "figure"}, svgs : UNION { [1..n -> Svgs] : n \in 0..MaxSvgs }]

CallFindMainSvg(plotElement) ==
  /\ last.op = "Mount"
  /\ last' = [op |-> "findMainSvg", plotElement |-> plotElement,
              result |-> findMainSvg(plotElement)]
  /\ UNCHANGED << parent, data, enableBrush, mounts, overlays, brushRef, listeners, cleanup, brushSelection, opacity,
                  gesture, selectedCount, isApplyingProgrammatic,
                  parentSelection, selectionProp, selDirty, parentDirty, pc,
                  notes, applied, steps, prev >>

NextSvg == \E plotElement \in PlotElements : CallFindMainSvg(plotElement)

SpecSvg == InitPure /\ [][NextSvg]_vars

\* The result is the first of the nested svgs of the largest area.
FirstLargest(svgs, r) ==
  /\ r # NULL
  /\ r.index \in DOMAIN svgs
  /\ \A j \in DOMAIN svgs : SvgArea(svgs[j]) <= SvgArea(svgs[r.index])
  /\ \A j \in DOMAIN svgs : j < r.index => SvgArea(svgs[j]) < SvgArea(svgs[r.index])

\* C15 as the specification states it: findMainSvg always returns one
\* surface, the root when the root is an svg and else the first of the nested
\* svgs of the largest area.
C15_AlwaysOneSurface ==
  last.op = "findMainSvg" =>
    /\ last.result # NULL
    /\ last.plotElement.tag = "svg" => last.result = [index |-> 0]
    /\ last.plotElement.tag # "svg" =>
         FirstLargest(last.plotElement.svgs, last.result)

\* C15: findMainSvg returns the root when the root is an svg; else, when
\* there are nested svgs, the first of those of the largest area (an
\* unavailable width or height counting as 0); else undefined.
C15_MainSvg ==
  last.op = "findMainSvg" =>
    /\ last.plotElement.tag = "svg" => last.result = [index |-> 0]
    /\ (last.plotElement.tag # "svg" /\ Len(last.plotElement.svgs) > 0) =>
         FirstLargest(last.plotElement.svgs, last.result)
    /\ (last.plotElement.tag # "svg" /\ Len(last.plotElement.svgs) = 0) =>
         last.result = NULL

\* A figure with a legend of unavailable size and two svgs of the largest
\* area: the first of the two is returned.
C15_Witness ==
  /\ last.op = "findMainSvg"
  /\ last.plotElement.tag = "figure"
  /\ last.plotElement.svgs =
       << [width |-> NULL, height |-> [value |-> 20]],
          [width |-> [value |-> 20], height |-> [value |-> 10]],
          [width |-> [value |-> 10], height |-> [value |-> 20]] >>
  /\ last.result = [index |-> 2]

----------------------------------------------------------------------------
(* The mount effect running again: new data, enableBrush toggled, and plots
   the brush cannot be set up on *)

\* The diagonal with the sizes increasing: Plot draws the last point first.
AscendingData == << Point(0, 80, 10, 1), Point(40, 40, 20, 2), Point(80, 0, 30, 3) >>

\* The diagonal with a second point that has no x: Plot draws two circles.
GappyData == << Point(0, 80, 30, 1), Point(NaN, 40, 20, 2), Point(80, 0, 10, 3) >>

\* One point that cannot be placed: Plot draws no circle.
UnplacedData == << Point(NaN, 40, 20, 1) >>

MountData == {DiagonalData, AscendingData, GappyData, UnplacedData, << >>}

\* Most renders with new data or enableBrush in one run.
MaxMounts == 2

\* The caller renders the component with the data d and enableBrush eb; the
\* rendered output has a surface or not and the scale fault given.  The mount effect runs (its dependencies
\* memoizedData or enableBrush changed, or the handler is new), then the
\* controlled-selection effect if the selection or enableBrush changed.
Rerender(d, eb, surface, fault) ==
  /\ Quiescent
  /\ mounts < MaxMounts
  /\ mounts' = mounts + 1
  /\ data' = d
  /\ enableBrush' = eb
  /\ LET m == MountEffect(d, eb, surface, fault)
     IN  /\ Remount(m)
         /\ last' = [op |-> "Rerender", surface |-> surface, fault |-> fault,
                     brush |-> m.brush, chart |-> m.chart]
  /\ selectionProp' = IF parent = "mirror" THEN parentSelection ELSE NULL
  /\ selDirty' = FALSE
  /\ parentDirty' = FALSE
  /\ pc' = IF selDirty \/ eb # enableBrush THEN "effect" ELSE "idle"
  /\ notes' = << >>
  /\ applied' = 0
  /\ steps' = 0
  /\ prev' = NULL
  /\ UNCHANGED << parent, selectedCount, isApplyingProgrammatic, parentSelection >>

\* The caller stops rendering the component, between two gestures.  React
\* runs the cleanup of the mount effect's last run and removes the component's
\* elements from the document; its state is discarded.  The object that
\* brushRef refers to stays as the closures of the last effect hold it.
Unmount ==
  /\ Quiescent
  /\ ~gesture.active
  /\ pc' = "unmounted"
  /\ listeners' = RunCleanup(listeners, cleanup)
  /\ cleanup' = FALSE
  /\ overlays' = 0
  /\ opacity' = << >>
  /\ brushSelection' = NULL
  /\ selectedCount' = 0
  /\ notes' = << >>
  /\ applied' = 0
  /\ steps' = 0
  /\ prev' = NULL
  /\ last' = [op |-> "Unmount"]
  /\ UNCHANGED << parent, data, enableBrush, mounts, brushRef, gesture,
                  isApplyingProgrammatic, parentSelection, selectionProp,
                  selDirty, parentDirty >>

\* The Escape key when no keydown listener of the component is registered:
\* nothing of the component runs.
EscapeUnheard ==
  /\ Settled
  /\ listeners = 0
  /\ notes' = << >>
  /\ applied' = 0
  /\ steps' = 0
  /\ prev' = NULL
  /\ last' = [op |-> "EscapeUnheard"]
  /\ UNCHANGED << parent, data, enableBrush, mounts, overlays, brushRef,
                  listeners, cleanup, brushSelection, opacity, gesture,
                  selectedCount, isApplyingProgrammatic, parentSelection,
                  selectionProp, selDirty, parentDirty, pc >>

\* The pointer positions and the selection used together with re-renders.
MountPointers == { [x |-> 50, y |-> 50], [x |-> 110, y |-> 110] }

MountSelection == BrushSelection(40, 40, 60, 60)

\* The renders tried: every data set with the brush enabled, the diagonal
\* without it, with every scale fault, and on an output without a surface
\* with and without the scale function.
MountInputs ==
  [data : MountData, enableBrush : {TRUE}, surface : {TRUE}, fault : {"none"}]
    \cup [data : {DiagonalData}, enableBrush : {FALSE}, surface : {TRUE},
          fault : {"none"}]
    \cup [data : {DiagonalData}, enableBrush : {TRUE}, surface : {TRUE},
          fault : Faults]
    \cup [data : {DiagonalData}, enableBrush : {TRUE}, surface : {FALSE},
          fault : {"none", "noScaleApi"}]

InitMounts == Init /\ parent = "mirror" /\ data = DiagonalData

NextMounts ==
  \/ \E p \in MountPointers : PointerDown(p)
  \/ \E p \in MountPointers : PointerMove(p)
  \/ PointerUp
  \/ Escape
  \/ EscapeUnheard
  \/ Unmount
  \/ ExternalSet(MountSelection)
  \/ ExternalClear
  \/ \E in \in MountInputs : Rerender(in.data, in.enableBrush, in.surface, in.fault)
  \/ Render
  \/ EffectStart
  \/ EffectApply
  \/ EffectFinally

SpecMounts == InitMounts /\ [][NextMounts]_vars

\* A render of C14's list: the brush is wanted, and the output has no surface,
\* no marks (or there is no point), or its scale access fails.
InitFailure ==
  /\ last.op = "Rerender"
  /\ enableBrush
  /\ \/ ~last.surface
     \/ Len(data) = 0
     \/ Len(last.chart) = 0
     \/ last.fault # "none"

\* C14 as the specification states it: after a render whose output has no
\* surface, no marks, no scale function, no x or y scale, or a scale access
\* that raises, no brush layer is attached and no keydown listener is
\* registered, and the chart that was rendered is in the container.
C14_FailureContained ==
  InitFailure =>
    /\ overlays = 0
    /\ listeners = 0
    /\ last.surface => last.chart = createScatterPlot(data, config)

\* The pixel centre at which the plot draws the point pt of the data d.
Centre(d, cfg, pt) ==
  [cx |-> ScaleApply(PlotScaleX(d, cfg), pt.x),
   cy |-> ScaleApply(PlotScaleY(d, cfg), pt.y)]

\* C16 as the specification states it: while a brush is attached, the cached
\* positions are as many as the points, and position i is the centre of the
\* mark drawn for data[i].
C16_PositionsMatchData ==
  (overlays > 0 /\ brushRef # NULL) =>
    /\ Len(brushRef.circlePositions) = Len(data)
    /\ \A i \in DOMAIN data :
         brushRef.circlePositions[i] = Centre(data, config, data[i])

\* C17: the container never holds more than one brush layer, and a selection
\* region exists only on the one brush layer that is attached.
C17_OneOverlayOneRegion ==
  /\ overlays <= 1
  /\ brushSelection # NULL => overlays = 1

\* After a render with other data, the caller's selection was applied to the
\* brush of the new plot: one layer, one region.
C17_Witness ==
  /\ mounts > 0
  /\ data = AscendingData
  /\ last.op = "EffectApply"
  /\ overlays = 1
  /\ brushSelection # NULL

\* C19 as the specification states it: a hit test, by a pointer-move or
\* pointer-up of a gesture or by the application of the caller's selection,
\* works on the positions of the circles of the plot rendered last.
C19_HitTestsUseCurrentRender ==
  /\ (last.op = "PointerMove" /\ last.emitted) =>
       gesture.ref.circlePositions = createScatterPlot(data, config)
  /\ last.op = "PointerUp" =>
       last.ref.circlePositions = createScatterPlot(data, config)
  /\ last.op = "EffectApply" =>
       brushRef.circlePositions = createScatterPlot(data, config)

\* C20 as the specification states it: when no brush layer is attached,
\* brushRef refers to nothing, and the caller's selection is only ever applied
\* to a brush that is attached.
C20_RefReleased ==
  /\ overlays = 0 => brushRef = NULL
  /\ last.op = "EffectApply" => overlays > 0

----------------------------------------------------------------------------
(* The caller's points *)

\* C21: no step of the component changes the data prop, and every point
\* handed to the observer is one of the caller's records, equal in every field.
C21_PointsUntouched ==
  [][/\ data' = data
     /\ \A k \in DOMAIN notes' : \A j \in DOMAIN notes'[k].points :
          notes'[k].points[j] \in PointSet(data)]_vars

\* A commit told the observer the first two of the caller's points.
C21_Witness ==
  /\ last.op = "PointerUp"
  /\ Len(notes) = 1
  /\ Len(notes[1].points) = 2
  /\ notes[1].points[1] = data[1]
  /\ notes[1].points[2] = data[2]
  /\ brushRef.data = data

----------------------------------------------------------------------------
(* Gestures that end without a region *)

\* The step taken last was a pointer-up whose "end" event carried no rectangle.
EndedEmpty == last.op = "PointerUp" /\ last.sel = NULL

\* C22: a gesture that ends without a region sets the count to 0 and calls
\* the observer once with ([], null); on the brush in the document it leaves
\* no region and every mark at the full opacity, and with a caller that passes
\* no selection no mark is dimmed afterwards.
C22_EmptyGestureClears ==
  EndedEmpty =>
    /\ selectedCount = 0
    /\ Len(notes) = 1
    /\ notes[1].points = << >>
    /\ notes[1].selection = NULL
    /\ ~last.stale => (brushSelection = NULL /\ FullOpacity)
    /\ parent # "mirror" => \A i \in DOMAIN opacity : opacity[i] # "0.15"

\* A click beside a committed region of two marks: the region is gone, the
\* third mark is no longer dimmed, the count fell from 2 to 0.
C22_Witness ==
  /\ EndedEmpty
  /\ ~last.stale
  /\ last.was.count = 2
  /\ \E i \in DOMAIN opacity : last.was.shown[i] = "0.15"
  /\ selectedCount = 0
  /\ FullOpacity
  /\ brushSelection = NULL
  /\ notes = << Note(<< >>, NULL, opacity) >>

----------------------------------------------------------------------------
(* Opacities and the region *)

\* The opacities in the document are those of the rectangle sel on the cached
\* positions, bounds inclusive.
Tracks(sel) ==
  /\ DOMAIN opacity = DOMAIN brushRef.circlePositions
  /\ \A i \in DOMAIN opacity :
       opacity[i] = IF inside(sel, brushRef.circlePositions[i]) THEN "0.7" ELSE "0.15"

\* C23 as the specification states it: with no region every mark has the
\* opacity 0.7; after a pointer-move that changed the rectangle, a pointer-up
\* and an application of the caller's selection, a mark has 0.7 if its cached
\* position is inside the region and 0.15 if not.
C23_OpacityTracksRegion ==
  /\ brushSelection = NULL => FullOpacity
  /\ (last.op = "PointerMove" /\ last.emitted) => Tracks(last.box)
  /\ (last.op = "PointerUp" /\ last.sel # NULL) => Tracks(last.sel)
  /\ (last.op = "EffectApply" /\ brushSelection # NULL) => Tracks(brushSelection)

----------------------------------------------------------------------------
(* Notifications and the drag *)

\* C24: pointer-down and pointer-move call no observer and cause no render of
\* the caller; while a gesture is in progress the only observer calls are
\* those of an explicit clear, ([], null).
C24_NoNotifyWhileDragging ==
  /\ last.op \in {"PointerDown", "PointerMove"} => (notes = << >> /\ ~parentDirty)
  /\ gesture.active =>
       \A k \in DOMAIN notes :
         notes[k].points = << >> /\ notes[k].selection = NULL

\* A pointer-move changed the rectangle and dimmed a mark; nobody was told.
C24_Witness ==
  /\ last.op = "PointerMove"
  /\ last.emitted
  /\ ~last.stale
  /\ gesture.active
  /\ \E i \in DOMAIN opacity : opacity[i] = "0.15"
  /\ \E i \in DOMAIN opacity : opacity[i] = "0.7"
  /\ notes = << >>

----------------------------------------------------------------------------
(* The order of the selected points *)

\* The position of the record pt in the sequence d (the records of the data
\* sets differ from each other).
IndexOf(d, pt) == CHOOSE i \in DOMAIN d : d[i] = pt

\* C25: the points of every observer call are records of the data the brush
\* was created with, and their positions in that data increase strictly
\* along the list, so no point appears twice.
C25_PointsInDataOrder ==
  \A n \in DOMAIN notes :
    LET points == notes[n].points
        d      == IF last.op = "PointerUp" THEN last.ref.data ELSE data
    IN  /\ \A k \in DOMAIN points : points[k] \in PointSet(d)
        /\ \A k, l \in DOMAIN points :
             k < l => IndexOf(d, points[k]) < IndexOf(d, points[l])

\* A drag over the whole extent: the observer receives all three points in
\* the order of the data.
C25_Witness ==
  /\ Committed
  /\ Len(notes) = 1
  /\ Len(notes[1].points) = 3
  /\ notes[1].points = data

----------------------------------------------------------------------------
(* The extracted scales and the plot's own *)

\* Pixel values at which the inverses are compared.
PixelCoords == {60, 80, 100, 140, 220}

\* Least and greatest of the numbers of a sequence.
Extent(s) == << SeqMin(s), SeqMax(s) >>

\* C26: the x scale has the domain [native.invert(minCx), native.invert(maxCx)]
\* and the range [minCx, maxCx], the y scale the domain [native.invert(maxCy),
\* native.invert(minCy)] and the range [maxCy, minCy]; when the circles differ
\* in cx and in cy, the extracted scales give what the plot's scales give,
\* forward and inverted, and take every drawn point to its circle.
C26_LocalScalesAgree ==
  last.op = "ExtractScales" =>
    LET cx == Extent([i \in DOMAIN last.circles |-> last.circles[i].cx])
        cy == Extent([i \in DOMAIN last.circles |-> last.circles[i].cy])
        nx == last.native.xScale
        ny == last.native.yScale
        lx == last.local.xScale
        ly == last.local.yScale
        order == Rendered(last.data)
    IN  /\ lx = scaleLinear(<< ScaleInvert(nx, cx[1]), ScaleInvert(nx, cx[2]) >>,
                            << cx[1], cx[2] >>)
        /\ ly = scaleLinear(<< ScaleInvert(ny, cy[2]), ScaleInvert(ny, cy[1]) >>,
                            << cy[2], cy[1] >>)
        /\ (cx[1] # cx[2] /\ cy[1] # cy[2]) =>
             /\ \A v \in DataCoords :
                  /\ ScaleApply(lx, v) = ScaleApply(nx, v)
                  /\ ScaleApply(ly, v) = ScaleApply(ny, v)
             /\ \A p \in PixelCoords :
                  /\ ScaleInvert(lx, p) = ScaleInvert(nx, p)
                  /\ ScaleInvert(ly, p) = ScaleInvert(ny, p)
             /\ \A k \in DOMAIN order :
                  /\ ScaleApply(lx, last.data[order[k]].x) = last.circles[k].cx
                  /\ ScaleApply(ly, last.data[order[k]].y) = last.circles[k].cy

\* The circles stop short of the top of the frame: the extracted y scale has
\* another domain and range than the plot's and is the same map.
C26_Witness ==
  /\ last.op = "ExtractScales"
  /\ last.data = TallData
  /\ last.native.yScale = scaleLinear(<< 0, 160 >>, << 140, 60 >>)
  /\ last.local.yScale = scaleLinear(<< 0, 80 >>, << 140, 100 >>)
  /\ last.circles = << [cx |-> 60, cy |-> 100], [cx |-> 140, cy |-> 140] >>

----------------------------------------------------------------------------
(* Regions without a mark *)

\* No cached position of ref lies in the rectangle sel.
NoMarkIn(sel, ref) ==
  \A i \in DOMAIN ref.circlePositions : ~inside(sel, ref.circlePositions[i])

\* C27: a committed region without a mark sets the count to 0 and calls the
\* observer once with no point and a rectangle, and on the brush in the
\* document every mark is dimmed; an applied region without a mark dims every
\* mark and sets the count to 0; the observer receives null at a pointer-up
\* exactly if the gesture ended without a region, and after Escape it has
\* received null only and no region is left.
C27_EmptyRegionIsNoError ==
  /\ (Committed /\ NoMarkIn(last.sel, last.ref)) =>
       /\ selectedCount = 0
       /\ Len(notes) = 1
       /\ notes[1].points = << >>
       /\ notes[1].selection # NULL
       /\ ~last.stale => \A i \in DOMAIN opacity : opacity[i] = "0.15"
  /\ (AppliedRect /\ NoMarkIn(brushSelection, brushRef)) =>
       /\ selectedCount = 0
       /\ \A i \in DOMAIN opacity : opacity[i] = "0.15"
  /\ last.op = "PointerUp" =>
       (notes[1].selection = NULL <=> last.sel = NULL)
  /\ last.op = "Escape" =>
       /\ brushSelection = NULL
       /\ \A k \in DOMAIN notes : notes[k].selection = NULL

\* A drag in the padding beside the marks at (60,140), (140,60), (110,60):
\* the committed rectangle [[50,50],[60,60]] holds no mark.
C27_Witness ==
  /\ Committed
  /\ ~last.stale
  /\ data = SkewData
  /\ last.sel = Rect(50, 50, 60, 60)
  /\ notes[1].points = << >>
  /\ notes[1].selection # NULL
  /\ selectedCount = 0
  /\ opacity = << "0.15", "0.15", "0.15" >>

----------------------------------------------------------------------------
(* The component with brushing disabled *)

\* C28: while enableBrush is false there is no brush overlay and no keydown
\* listener, no step changes a mark's opacity, and the observer is not
\* called by any pointer event, key press or change of the selection.
C28_DisabledBrushIsInert ==
  /\ [](~enableBrush => /\ overlays = 0
                        /\ listeners = 0
                        /\ notes = << >>)
  /\ [][(~enableBrush /\ ~enableBrush') => opacity' = opacity]_vars

----------------------------------------------------------------------------
(* The Escape key's notifications *)

\* C29: one Escape key press calls the observer exactly once, with no point
\* and no rectangle.
C29_EscapeNotifiesOnce ==
  last.op = "Escape" =>
    /\ Len(notes) = 1
    /\ notes[1].points = << >>
    /\ notes[1].selection = NULL

----------------------------------------------------------------------------
(* The keydown listener over the component's life *)

\* C30: at most one keydown listener of the component is registered, and it
\* is registered exactly when the last run of the mount effect returned a
\* cleanup; none is registered after unmount or while enableBrush is false;
\* an Escape key press after unmount does not call the observer.
C30_OneListenerNoneAfterUnmount ==
  /\ listeners <= 1
  /\ cleanup <=> listeners = 1
  /\ (pc = "unmounted" \/ ~enableBrush) => listeners = 0
  /\ (pc = "unmounted" /\ last.op \in {"Escape", "EscapeUnheard"}) =>
       notes = << >>

\* The component was rendered again twice, then unmounted, and the Escape key
\* was pressed.
C30_Witness ==
  /\ pc = "unmounted"
  /\ mounts = 2
  /\ enableBrush
  /\ last.op = "EscapeUnheard"
  /\ listeners = 0
  /\ notes = << >>

----------------------------------------------------------------------------
(* The controlled selection across rebuilds *)

\* The pixel rectangle of the data rectangle sel under the scales of ref,
\* minimum first on each axis; no rectangle for no selection.
Forward(sel, ref) ==
  IF sel = NULL THEN NULL
  ELSE LET X0 == ScaleApply(ref.xScale, sel.x0)
           X1 == ScaleApply(ref.xScale, sel.x1)
           Y0 == ScaleApply(ref.yScale, sel.y0)
           Y1 == ScaleApply(ref.yScale, sel.y1)
       IN  Rect(Min(X0, X1), Min(Y0, Y1), Max(X0, X1), Max(Y0, Y1))

\* C31: in every quiescent state of a caller that mirrors the observer's
\* rectangle into the selection prop, with the brush of the plot of the data
\* in the document and no gesture in progress, the brush region is the forward-mapped prop (no
\* region for no prop), and with a prop the marks inside it have opacity 0.7
\* and the others 0.15.
C31_PropStaysApplied ==
  ( /\ Quiescent
    /\ parent = "mirror"
    /\ enableBrush
    /\ overlays > 0
    /\ brushRef = MountRefs(data, config)
    /\ ~gesture.active ) =>
      /\ brushSelection = Forward(selectionProp, brushRef)
      /\ selectionProp # NULL =>
           \A i \in DOMAIN opacity :
             opacity[i] = IF inside(brushSelection, brushRef.circlePositions[i])
                          THEN "0.7" ELSE "0.15"

----------------------------------------------------------------------------
(* The displayed count *)

\* The number of marks of ref inside the pixel rectangle sel; 0 for no region.
Members(sel, ref) ==
  IF sel = NULL THEN 0
  ELSE Cardinality({ i \in DOMAIN ref.circlePositions :
                       inside(sel, ref.circlePositions[i]) })

\* C32: in every quiescent state with no gesture in progress the displayed
\* count is the number of marks inside the region of the brush in the
\* document, and 0 when that brush has no region.
C32_CountReflectsRegion ==
  ( /\ Quiescent
    /\ ~gesture.active
    /\ overlays > 0
    /\ brushRef = MountRefs(data, config) ) =>
      selectedCount = Members(brushSelection, brushRef)

----------------------------------------------------------------------------
(* The echo of a committed region through the caller *)

\* A caller that passes the observer's rectangle back as the selection prop,
\* with marks on a diagonal or with three marks in one column.
InitEcho == InitWith({"mirror"}, {DiagonalData, ColumnData})

SpecEcho == InitEcho /\ [][Next]_vars

\* The prop that the effect applied is the rectangle of the observer's last
\* call.
Echoed ==
  /\ last.op = "EffectApply"
  /\ parent = "mirror"
  /\ overlays > 0
  /\ notes # << >>
  /\ selectionProp # NULL
  /\ selectionProp = notes[Len(notes)].selection

\* C33: the data rectangle reported at a commit, applied again with the same
\* scales, gives the committed pixel rectangle; and after the effect applied
\* the reported rectangle, the marks' opacities are those at the commit and
\* the count is the number of points reported.
C33_EchoStable ==
  /\ (Committed /\ parent = "mirror" /\ ~last.stale) =>
       setBrushSelection(World, notes[1].selection, last.ref).brushSelection
         = last.sel
  /\ Echoed =>
       /\ opacity = notes[Len(notes)].seen
       /\ selectedCount = Len(notes[Len(notes)].points)

----------------------------------------------------------------------------
(* The orientation of the reported rectangle *)

\* C34: every rectangle handed to the observer has its left edge first on x
\* (x0 <= x1) and its top edge first on y, which is the larger data value
\* (y0 >= y1).
C34_LeftTopRightBottom ==
  \A k \in DOMAIN notes :
    notes[k].selection # NULL =>
      /\ notes[k].selection.x0 <= notes[k].selection.x1
      /\ notes[k].selection.y0 >= notes[k].selection.y1

\* The drag from (50,50) to (110,110) over the marks at (60,60), (100,100),
\* (140,140) was reported as x from -10 to 50 and y from 90 down to 30.
C34_Witness ==
  /\ Committed
  /\ ~last.stale
  /\ last.sel = Rect(50, 50, 110, 110)
  /\ notes[1].selection = BrushSelection(-10, 90, 50, 30)

====
